---- MODULE Spec2Model ----
(***************************************************************************)
(* Model of ElasticsearchLogger (src/elastic-insert-logs-all.py): the      *)
(* document construction of _create_log_entry, the two submission paths    *)
(* log (blocking) and log_async (non-blocking), and close.                  *)
(*                                                                         *)
(* Python values are represented as follows.                               *)
(*   str            a TLA+ string                                          *)
(*   Optional[T]    None is the empty tuple <<>>, a present value v is the  *)
(*                  one-element tuple <<v>>                                 *)
(*   dict           a function from a set of key strings to values          *)
(*   Elasticsearch  a client object is seen through the calls it receives:   *)
(*                  a bag of index calls and a count of close calls         *)
(***************************************************************************)
EXTENDS Integers, Sequences, FiniteSets, Bags, TLC

VARIABLES
    default_index,      \* self.default_index
    now,                \* the wall clock, whole seconds after 2024-01-01T00:00:00Z
    calls,              \* call slot -> the frame of the log / log_async call run in it
    es,                 \* self.es: the client object it refers to
    async_es,           \* self.async_es: the client object it refers to
    index_calls,        \* client object -> bag of the index(...) calls it received
    close_calls,        \* client object -> number of close() calls it received
    close_pc            \* position of the close() coroutine

vars == <<default_index, now, calls, es, async_es, index_calls, close_calls, close_pc>>

-----------------------------------------------------------------------------
(* Bounds *)

\* the clock takes the values 0..MaxClock
MaxClock == 1
\* additional_fields carries at most MaxExtra keys
MaxExtra == 2
\* number of call slots that run concurrently
NumCalls == 2

-----------------------------------------------------------------------------
(* Python values *)

None == <<>>
Some(v) == <<v>>
IsNone(o) == o = None
Val(o) == o[1]

\* d[k] = v
DictSet(d, k, v) == [x \in DOMAIN d \cup {k} |-> IF x = k THEN v ELSE d[x]]

\* d.update(e)
DictUpdate(d, e) == [x \in DOMAIN d \cup DOMAIN e |-> IF x \in DOMAIN e THEN e[x] ELSE d[x]]

\* truthiness of an Optional[str]: None and "" are falsy
StrTruthy(o) == ~IsNone(o) /\ Val(o) # ""

\* truthiness of an Optional[dict]: None and {} are falsy
DictTruthy(o) == ~IsNone(o) /\ DOMAIN Val(o) # {}

Digit == <<"0", "1", "2", "3", "4", "5", "6", "7", "8", "9">>
TwoDigits(n) == Digit[(n \div 10) + 1] \o Digit[(n % 10) + 1]

\* datetime.now(timezone.utc).isoformat() at t whole seconds after
\* 2024-01-01T00:00:00Z (t below one hour)
isoformat(t) ==
    "2024-01-01T00:" \o TwoDigits((t \div 60) % 60) \o ":" \o TwoDigits(t % 60) \o "+00:00"

-----------------------------------------------------------------------------
(* _create_log_entry *)

\* mandatory_fields with level and service stored under each other's key
mandatory_fields_swapped(t, message, level, service) ==
    [k \in {"@timestamp", "message", "level", "service"} |->
        CASE k = "@timestamp" -> isoformat(t)
          [] k = "message"    -> message
          [] k = "level"      -> service
          [] k = "service"    -> level]

\* the four fields every entry starts with
mandatory_fields(t, message, level, service) ==
    [k \in {"@timestamp", "message", "level", "service"} |->
        CASE k = "@timestamp" -> isoformat(t)
          [] k = "message"    -> message
          [] k = "level"      -> level
          [] k = "service"    -> service]

\* if v is not None: entry[k] = v
set_if_present(entry, k, v) == IF ~IsNone(v) THEN DictSet(entry, k, Val(v)) ELSE entry

\* the body of the branch log_type == "common"
common_fields(entry, logger, environment) ==
    LET e1 == set_if_present(entry, "logger", logger)
    IN  set_if_present(e1, "environment", environment)

\* result_field with the derivation tried before the supplied result
result_field_derived_first(entry, expected_value, actual_value, result) ==
    IF ~IsNone(actual_value) /\ ~IsNone(expected_value)
    THEN DictSet(entry, "result",
                 IF Val(actual_value) = Val(expected_value) THEN "success" ELSE "failure")
    ELSE IF ~IsNone(result)
         THEN DictSet(entry, "result", Val(result))
         ELSE entry

\* the result / derivation step of the branch log_type == "process"
result_field(entry, expected_value, actual_value, result) ==
    IF ~IsNone(result)
    THEN DictSet(entry, "result", Val(result))
    ELSE IF ~IsNone(actual_value) /\ ~IsNone(expected_value)
         THEN DictSet(entry, "result",
                      IF Val(actual_value) = Val(expected_value) THEN "success" ELSE "failure")
         ELSE entry

\* the body of the branch log_type == "process"
process_fields(entry, model, method, action, expected_value, actual_value, result) ==
    LET e1 == set_if_present(entry, "model", model)
        e2 == set_if_present(e1, "method", method)
        e3 == set_if_present(e2, "action", action)
        e4 == set_if_present(e3, "expected_value", expected_value)
        e5 == set_if_present(e4, "actual_value", actual_value)
    IN  result_field(e5, expected_value, actual_value, result)

\* type_fields with both groups attached whatever log_type is
type_fields_by_presence(entry, log_type, logger, environment, model, method, action, expected_value, actual_value, result) ==
    process_fields(common_fields(entry, logger, environment), model, method, action,
                   expected_value, actual_value, result)

\* if log_type == "common": ... elif log_type == "process": ...
type_fields(entry, log_type, logger, environment, model, method, action, expected_value, actual_value, result) ==
    IF log_type = "common"
    THEN common_fields(entry, logger, environment)
    ELSE IF log_type = "process"
         THEN process_fields(entry, model, method, action,
                             expected_value, actual_value, result)
         ELSE entry

\* merge_additional_fields that keeps the value of a key the entry already has
merge_additional_fields_keep_first(entry, additional_fields) ==
    IF DictTruthy(additional_fields) THEN DictUpdate(Val(additional_fields), entry) ELSE entry

\* if additional_fields: log_entry.update(additional_fields)
merge_additional_fields(entry, additional_fields) ==
    IF DictTruthy(additional_fields) THEN DictUpdate(entry, Val(additional_fields)) ELSE entry

\* t is the clock value _create_log_entry reads
_create_log_entry(t, message, level, service, log_type, logger, environment, model, method, action, expected_value, actual_value, result, additional_fields) ==
    LET e0 == mandatory_fields(t, message, level, service)
        e1 == type_fields(e0, log_type, logger, environment, model, method, action,
                          expected_value, actual_value, result)
    IN  merge_additional_fields(e1, additional_fields)

-----------------------------------------------------------------------------
(* The datastore client, seen from the logger *)

\* what an index call answers: an acknowledgement, or an error it raises
Ack(body) == [ok |-> TRUE, body |-> body]
Err(body) == [ok |-> FALSE, body |-> body]

\* raise ValueError(...)
ValueError == Err("ValueError")

\* the two client objects the constructor opens
SyncClient == "Elasticsearch"
AsyncClient == "AsyncElasticsearch"
Clients == {SyncClient, AsyncClient}

\* one index(index=..., document=...) call as the handle receives it, tagged
\* with the call slot that made it
IndexCall(c, target_index, log_entry) ==
    [caller |-> c, index |-> target_index, document |-> log_entry]

-----------------------------------------------------------------------------
(* log *)

\* log_entry = self._create_log_entry(message=message, ...)
log_create_entry(t, a) ==
    _create_log_entry(t, a.message, a.level, a.service, a.log_type, a.logger, a.environment, a.model, a.method, a.action, a.expected_value, a.actual_value, a.result, a.additional_fields)

\* log_target_index with the hyphen left out
log_target_index_no_hyphen(prefix, log_type, index) ==
    IF StrTruthy(index) THEN Val(index) ELSE prefix \o log_type

\* target_index = index or f"{self.default_index}-{log_type}"
log_target_index(prefix, log_type, index) ==
    IF StrTruthy(index) THEN Val(index) ELSE prefix \o "-" \o log_type

\* log_index with the call made a second time
log_index_retry(received, h, c, target_index, log_entry) ==
    [received EXCEPT ![h] = @ (+) SetToBag({IndexCall(c, target_index, log_entry)})
                              (+) SetToBag({IndexCall(c, target_index, log_entry)})]

\* self.es.index(index=target_index, document=log_entry): one call on the handle
log_index(received, h, c, target_index, log_entry) ==
    [received EXCEPT ![h] = @ (+) SetToBag({IndexCall(c, target_index, log_entry)})]

\* return self.es.index(...): the answer reaches the caller as it is
log_return(resp) == resp

Frame(pc, kind, a, index, t, log_entry, target_index, response, value) ==
    [pc |-> pc, kind |-> kind, args |-> a, index |-> index, t |-> t,
     log_entry |-> log_entry, target_index |-> target_index,
     response |-> response, value |-> value]

\* the whole of log(): it runs to its return or raise without suspending
log(c, a, index, resp) ==
    /\ calls[c].pc = "idle"
    /\ LET log_entry == log_create_entry(now, a)
           target_index == log_target_index(default_index, a.log_type, index)
       IN  IF target_index = ""
           THEN /\ calls' = [calls EXCEPT ![c] =
                       Frame("raised", "log", a, index, now, Some(log_entry),
                             Some(target_index), None, Some(ValueError))]
                /\ UNCHANGED index_calls
           ELSE /\ index_calls' = log_index(index_calls, es, c, target_index, log_entry)
                /\ calls' = [calls EXCEPT ![c] =
                       Frame(IF resp.ok THEN "returned" ELSE "raised", "log", a, index,
                             now, Some(log_entry), Some(target_index), Some(resp),
                             Some(log_return(resp)))]
    /\ UNCHANGED <<default_index, now, es, async_es, close_calls, close_pc>>

-----------------------------------------------------------------------------
(* log_async *)

\* log_async_create_entry fed from the arguments of a call made earlier and
\* kept on the logger
log_async_create_entry_shared(t, a) ==
    LET earlier == {c \in DOMAIN calls : calls[c].pc # "idle"}
        b == IF earlier = {} THEN a ELSE calls[CHOOSE c \in earlier : TRUE].args
    IN  _create_log_entry(t, b.message, b.level, b.service, b.log_type, b.logger, b.environment, b.model, b.method, b.action, b.expected_value, b.actual_value, b.result, b.additional_fields)

\* log_entry = self._create_log_entry(message=message, ...)
log_async_create_entry(t, a) ==
    _create_log_entry(t, a.message, a.level, a.service, a.log_type, a.logger, a.environment, a.model, a.method, a.action, a.expected_value, a.actual_value, a.result, a.additional_fields)

\* log_async_target_index that never looks at the index argument
log_async_target_index_ignore_override(prefix, log_type, index) ==
    prefix \o "-" \o log_type

\* target_index = index or f"{self.default_index}-{log_type}"
log_async_target_index(prefix, log_type, index) ==
    IF StrTruthy(index) THEN Val(index) ELSE prefix \o "-" \o log_type

\* self.async_es.index(index=target_index, document=log_entry): one call on the handle
log_async_index(received, h, c, target_index, log_entry) ==
    [received EXCEPT ![h] = @ (+) SetToBag({IndexCall(c, target_index, log_entry)})]

\* return await self.async_es.index(...): the answer reaches the caller as it is
log_async_return(resp) == resp

\* log_async() from its start to the await of the index call
log_async_start(c, a, index) ==
    /\ calls[c].pc = "idle"
    /\ LET log_entry == log_async_create_entry(now, a)
           target_index == log_async_target_index(default_index, a.log_type, index)
       IN  IF target_index = ""
           THEN /\ calls' = [calls EXCEPT ![c] =
                       Frame("raised", "log_async", a, index, now, Some(log_entry),
                             Some(target_index), None, Some(ValueError))]
                /\ UNCHANGED index_calls
           ELSE /\ index_calls' = log_async_index(index_calls, async_es, c, target_index, log_entry)
                /\ calls' = [calls EXCEPT ![c] =
                       Frame("awaiting", "log_async", a, index, now, Some(log_entry),
                             Some(target_index), None, None)]
    /\ UNCHANGED <<default_index, now, es, async_es, close_calls, close_pc>>

\* the awaited index call completes: log_async() returns or raises
log_async_resume(c, resp) ==
    /\ calls[c].pc = "awaiting"
    /\ calls' = [calls EXCEPT ![c].pc = IF resp.ok THEN "returned" ELSE "raised",
                              ![c].response = Some(resp),
                              ![c].value = Some(log_async_return(resp))]
    /\ UNCHANGED <<default_index, now, es, async_es, index_calls, close_calls, close_pc>>

-----------------------------------------------------------------------------
(* close *)

\* close() from its start to the await: self.es.close() returns (ok) or raises,
\* and only when it returns is self.async_es.close() called and awaited
close_start(ok) ==
    /\ close_pc = "idle"
    /\ IF ok
       THEN /\ close_calls' = [close_calls EXCEPT ![es] = @ + 1, ![async_es] = @ + 1]
            /\ close_pc' = "awaiting"
       ELSE /\ close_calls' = [close_calls EXCEPT ![es] = @ + 1]
            /\ close_pc' = "raised"
    /\ UNCHANGED <<default_index, now, calls, es, async_es, index_calls>>

\* the awaited self.async_es.close() completes: close() returns or raises
close_resume(ok) ==
    /\ close_pc = "awaiting"
    /\ close_pc' = IF ok THEN "returned" ELSE "raised"
    /\ UNCHANGED <<default_index, now, calls, es, async_es, index_calls, close_calls>>

-----------------------------------------------------------------------------
(* The clock *)

Tick ==
    /\ now < MaxClock
    /\ now' = now + 1
    /\ UNCHANGED <<default_index, calls, es, async_es, index_calls, close_calls, close_pc>>

-----------------------------------------------------------------------------
(* Inputs *)

OptStr(S) == {None} \cup {Some(v) : v \in S}

\* the value carried for each additional_fields key
ExtraValue(k) ==
    CASE k = "@timestamp" -> ""
      [] k = "message"    -> "overridden"
      [] k = "result"     -> "skipped"
      [] k = "logger"     -> "extra-logger"
      [] k = "model"      -> "extra-model"
      [] OTHER            -> "123"

\* None, {} and every dict over at most n of the keys
ExtraDicts(keys, n) ==
    {None} \cup {Some([k \in D |-> ExtraValue(k)]) : D \in {D \in SUBSET keys : Cardinality(D) <= n}}

\* the arguments of a call other than index
BuildArgs ==
    [message : {"m1"}, level : {"INFO"}, service : {"python-app"},
     log_type : {"common", "process", "audit"},
     logger : OptStr({"main"}), environment : OptStr({"production"}),
     model : OptStr({"nlp-model-v1"}), method : OptStr({"validate"}),
     action : OptStr({"score"}),
     expected_value : OptStr({"0.95", "0.96"}), actual_value : OptStr({"0.95", "0.96"}),
     result : OptStr({"pending"}),
     additional_fields : ExtraDicts({"@timestamp", "message", "result", "logger", "user_id"}, MaxExtra)]

WriterArgs ==
    [message : {"m1"}, level : {"INFO"}, service : {"python-app"},
     log_type : {"common", "process"},
     logger : OptStr({"main"}), environment : {None},
     model : OptStr({"nlp-model-v1"}), method : {None}, action : {None},
     expected_value : OptStr({"0.95"}), actual_value : OptStr({"0.96"}),
     result : {None},
     additional_fields : {None, Some([k \in {"message"} |-> ExtraValue(k)])}]

ConcArgs ==
    [message : {"m1", "m2"}, level : {"INFO"}, service : {"python-app"},
     log_type : {"process"},
     logger : {None}, environment : {None}, model : {None}, method : {None},
     action : {None}, expected_value : {None}, actual_value : {None}, result : {None},
     additional_fields : {None}]

\* the index argument
WriterOverrides == {None, Some(""), Some("custom-idx")}
ConcOverrides == {None, Some("custom-idx")}

\* the default_index the constructor is given
Prefixes == {"mh-logs", ""}

\* what the datastore answers to an index call
Responses == {Ack("created"), Err("TransportError"), Err("ConnectionTimeout")}
ConcResponses == {Ack("created"), Err("TransportError")}

NoArgs ==
    [message |-> "", level |-> "", service |-> "", log_type |-> "",
     logger |-> None, environment |-> None, model |-> None, method |-> None,
     action |-> None, expected_value |-> None, actual_value |-> None, result |-> None,
     additional_fields |-> None]

IdleFrame == Frame("idle", "none", NoArgs, None, 0, None, None, None, None)

-----------------------------------------------------------------------------
(* Specifications *)

\* the state __init__ leaves, with no call made yet
InitWriter(slots, prefixes) ==
    /\ default_index \in prefixes
    /\ now = 0
    /\ calls = [c \in slots |-> IdleFrame]
    /\ es = SyncClient
    /\ async_es = AsyncClient
    /\ index_calls = [h \in Clients |-> EmptyBag]
    /\ close_calls = [h \in Clients |-> 0]
    /\ close_pc = "idle"

\* one caller: a log or log_async call, and close
Init == InitWriter({1}, Prefixes)

Next ==
    \/ \E c \in DOMAIN calls, a \in WriterArgs, index \in WriterOverrides, resp \in Responses :
           log(c, a, index, resp)
    \/ \E c \in DOMAIN calls, a \in WriterArgs, index \in WriterOverrides :
           log_async_start(c, a, index)
    \/ \E c \in DOMAIN calls, resp \in Responses : log_async_resume(c, resp)
    \/ \E ok \in BOOLEAN : close_start(ok)
    \/ \E ok \in BOOLEAN : close_resume(ok)
    \/ Tick

Spec == Init /\ [][Next]_vars

\* NumCalls callers running log and log_async concurrently
InitConc == InitWriter(1..NumCalls, {"mh-logs"})

NextConc ==
    \/ \E c \in DOMAIN calls, a \in ConcArgs, index \in ConcOverrides, resp \in ConcResponses :
           log(c, a, index, resp)
    \/ \E c \in DOMAIN calls, a \in ConcArgs, index \in ConcOverrides :
           log_async_start(c, a, index)
    \/ \E c \in DOMAIN calls, resp \in ConcResponses : log_async_resume(c, resp)
    \/ Tick

SpecConc == InitConc /\ [][NextConc]_vars

\* _create_log_entry applied to arguments drawn from BuildArgs
build(c) ==
    /\ calls[c].pc = "called"
    /\ LET a == calls[c].args
       IN  calls' = [calls EXCEPT
                ![c].pc = "built",
                ![c].t = now,
                ![c].log_entry = Some(_create_log_entry(now, a.message, a.level, a.service, a.log_type, a.logger, a.environment, a.model, a.method, a.action, a.expected_value, a.actual_value, a.result, a.additional_fields))]
    /\ UNCHANGED <<default_index, now, es, async_es, index_calls, close_calls, close_pc>>

InitBuild ==
    /\ default_index = "mh-logs"
    /\ now = 0
    /\ calls \in [{1} -> {Frame("called", "_create_log_entry", a, None, 0, None, None, None, None) : a \in BuildArgs}]
    /\ es = SyncClient
    /\ async_es = AsyncClient
    /\ index_calls = [h \in Clients |-> EmptyBag]
    /\ close_calls = [h \in Clients |-> 0]
    /\ close_pc = "idle"

NextBuild ==
    \/ \E c \in DOMAIN calls : build(c)
    \/ Tick

SpecBuild == InitBuild /\ [][NextBuild]_vars

-----------------------------------------------------------------------------
(* Vocabulary of the properties *)

Slots == DOMAIN calls
Built(c) == calls[c].pc = "built"
Invoked(c) == calls[c].pc \in {"awaiting", "returned", "raised"}
Finished(c) == calls[c].pc \in {"returned", "raised"}
Doc(c) == Val(calls[c].log_entry)

EmptyDict == [k \in {} |-> ""]

\* the additional_fields of a call as a dict, None read as {}
ExtraOf(a) == IF IsNone(a.additional_fields) THEN EmptyDict ELSE Val(a.additional_fields)

MandatoryKeys == {"@timestamp", "message", "level", "service"}
CommonKeys == {"logger", "environment"}
ProcessKeys == {"model", "method", "action", "expected_value", "actual_value", "result"}

\* the argument a group key is filled from
Supplied(a, k) ==
    CASE k = "logger"         -> a.logger
      [] k = "environment"    -> a.environment
      [] k = "model"          -> a.model
      [] k = "method"         -> a.method
      [] k = "action"         -> a.action
      [] k = "expected_value" -> a.expected_value
      [] k = "actual_value"   -> a.actual_value
      [] k = "result"         -> a.result

\* the index calls client h received from call slot c, and their number
CallsOn(h, c) == {r \in BagToSet(index_calls[h]) : r.caller = c}
WritesOn(h, c) == BagCardinality([r \in CallsOn(h, c) |-> index_calls[h][r]])
WritesBy(c) == WritesOn(SyncClient, c) + WritesOn(AsyncClient, c)

\* "{prefix}-{tag}" written out for the prefixes and tags in use
IndexName(prefix, log_type) ==
    CASE prefix = "mh-logs" /\ log_type = "common"  -> "mh-logs-common"
      [] prefix = "mh-logs" /\ log_type = "process" -> "mh-logs-process"
      [] prefix = ""        /\ log_type = "common"  -> "-common"
      [] prefix = ""        /\ log_type = "process" -> "-process"

\* the index a call is to write to: the override when given and non-empty
ResolvedIndex(prefix, log_type, index) ==
    IF ~IsNone(index) /\ Val(index) # "" THEN Val(index) ELSE IndexName(prefix, log_type)

\* a document without one key
Without(d, k) == [x \in DOMAIN d \ {k} |-> d[x]]

-----------------------------------------------------------------------------
(* Properties *)

\* C1: with default_index "" and no index argument, log and log_async raise
\* ValueError and the call makes no index call on either client.
C1_EmptyPrefixRaises ==
    \A c \in Slots :
        (Invoked(c) /\ default_index = "" /\ IsNone(calls[c].index))
            => /\ calls[c].pc = "raised"
               /\ calls[c].value = Some(ValueError)
               /\ WritesBy(c) = 0

\* C2: once close() has returned or raised, close() has been called on both
\* self.es and self.async_es.
C2_CloseAttemptsBoth ==
    close_pc \in {"returned", "raised"}
        => close_calls[es] >= 1 /\ close_calls[async_es] >= 1

\* C3 as stated: every document _create_log_entry returns has a non-empty
\* "@timestamp" and the message, level and service passed in, whatever
\* additional_fields holds.
C3_MandatoryAsPassed ==
    \A c \in Slots :
        Built(c) =>
            /\ MandatoryKeys \subseteq DOMAIN Doc(c)
            /\ Doc(c)["@timestamp"] # ""
            /\ Doc(c)["message"] = calls[c].args.message
            /\ Doc(c)["level"] = calls[c].args.level
            /\ Doc(c)["service"] = calls[c].args.service

\* C3 amended: every document _create_log_entry returns has the four mandatory
\* keys, and each of them that is not a key of additional_fields holds what was
\* passed in: a non-empty "@timestamp", and the message, level and service
\* parameters.
C3_MandatoryUnlessOverridden ==
    \A c \in Slots :
        Built(c) =>
            LET a == calls[c].args
                extra == ExtraOf(a)
            IN  /\ MandatoryKeys \subseteq DOMAIN Doc(c)
                /\ "@timestamp" \notin DOMAIN extra => Doc(c)["@timestamp"] # ""
                /\ "message" \notin DOMAIN extra => Doc(c)["message"] = a.message
                /\ "level" \notin DOMAIN extra => Doc(c)["level"] = a.level
                /\ "service" \notin DOMAIN extra => Doc(c)["service"] = a.service

C3_Witness ==
    \E c \in Slots :
        /\ Built(c)
        /\ calls[c].args.log_type = "process"
        /\ DOMAIN ExtraOf(calls[c].args) = {"user_id", "logger"}
        /\ ~IsNone(calls[c].args.model)
        /\ calls[c].t = 1
        /\ Doc(c)["@timestamp"] = "2024-01-01T00:00:01+00:00"
        /\ Doc(c)["message"] = "m1"
        /\ Doc(c)["level"] = "INFO"
        /\ Doc(c)["service"] = "python-app"

\* C4: additional_fields is merged last: the document holds extra[k] at every
\* key k of additional_fields, and at every other key what the earlier steps
\* (mandatory fields, then the fields of the log_type) put there; it has no
\* further keys.
C4_ExtraMergedLast ==
    \A c \in Slots :
        Built(c) =>
            LET a == calls[c].args
                extra == ExtraOf(a)
                before == type_fields(mandatory_fields(calls[c].t, a.message, a.level, a.service),
                                      a.log_type, a.logger, a.environment, a.model, a.method,
                                      a.action, a.expected_value, a.actual_value, a.result)
            IN  /\ DOMAIN Doc(c) = DOMAIN before \cup DOMAIN extra
                /\ \A k \in DOMAIN extra : Doc(c)[k] = extra[k]
                /\ \A k \in DOMAIN before \ DOMAIN extra : Doc(c)[k] = before[k]

C4_Witness ==
    \E c \in Slots :
        /\ Built(c)
        /\ calls[c].args.log_type = "process"
        /\ calls[c].args.result = Some("pending")
        /\ DOMAIN ExtraOf(calls[c].args) = {"message", "result"}
        /\ Doc(c)["message"] = "overridden"
        /\ Doc(c)["result"] = "skipped"
        /\ Doc(c)["level"] = "INFO"

\* C5: the field group is chosen by log_type alone. With "common" no process
\* key (model, method, action, expected_value, actual_value, result) is in the
\* document, whatever was supplied, and the supplied logger and environment
\* are; with "process" no common key is in the document and the supplied
\* model, method, action, expected_value and actual_value are. Keys that
\* additional_fields carries itself are left aside.
C5_CategoryIsolation ==
    \A c \in Slots :
        Built(c) =>
            LET a == calls[c].args
                extra == ExtraOf(a)
                own == IF a.log_type = "common" THEN CommonKeys
                       ELSE IF a.log_type = "process" THEN ProcessKeys \ {"result"}
                       ELSE {}
                other == IF a.log_type = "common" THEN ProcessKeys
                         ELSE IF a.log_type = "process" THEN CommonKeys
                         ELSE {}
            IN  /\ \A k \in other \ DOMAIN extra : k \notin DOMAIN Doc(c)
                /\ \A k \in own \ DOMAIN extra :
                       IF IsNone(Supplied(a, k))
                       THEN k \notin DOMAIN Doc(c)
                       ELSE k \in DOMAIN Doc(c) /\ Doc(c)[k] = Val(Supplied(a, k))

C5_Witness ==
    \E c \in Slots :
        /\ Built(c)
        /\ calls[c].args.log_type = "common"
        /\ calls[c].args.logger = Some("main")
        /\ calls[c].args.model = Some("nlp-model-v1")
        /\ calls[c].args.result = Some("pending")
        /\ calls[c].args.expected_value = Some("0.95")
        /\ calls[c].args.actual_value = Some("0.95")
        /\ IsNone(calls[c].args.additional_fields)
        /\ DOMAIN Doc(c) = MandatoryKeys \cup {"logger"}

\* C6: with log_type "process" and no "result" key in additional_fields, the
\* document's result is the supplied result when one is supplied; otherwise
\* "success" when expected_value and actual_value are both supplied and equal,
\* "failure" when both are supplied and differ; and there is no result key when
\* result is not supplied and expected_value or actual_value is missing.
C6_ResultRule ==
    \A c \in Slots :
        (Built(c) /\ calls[c].args.log_type = "process"
                  /\ "result" \notin DOMAIN ExtraOf(calls[c].args)) =>
            LET a == calls[c].args
                both == ~IsNone(a.expected_value) /\ ~IsNone(a.actual_value)
            IN  /\ ~IsNone(a.result)
                       => "result" \in DOMAIN Doc(c) /\ Doc(c)["result"] = Val(a.result)
                /\ (IsNone(a.result) /\ both /\ Val(a.expected_value) = Val(a.actual_value))
                       => "result" \in DOMAIN Doc(c) /\ Doc(c)["result"] = "success"
                /\ (IsNone(a.result) /\ both /\ Val(a.expected_value) # Val(a.actual_value))
                       => "result" \in DOMAIN Doc(c) /\ Doc(c)["result"] = "failure"
                /\ (IsNone(a.result) /\ ~both) => "result" \notin DOMAIN Doc(c)

C6_Witness ==
    \E c \in Slots :
        /\ Built(c)
        /\ calls[c].args.log_type = "process"
        /\ calls[c].args.result = Some("pending")
        /\ calls[c].args.expected_value = Some("0.95")
        /\ calls[c].args.actual_value = Some("0.95")
        /\ "result" \notin DOMAIN ExtraOf(calls[c].args)
        /\ Doc(c)["result"] = "pending"

\* C7: the index log and log_async resolve, and the index of every index call
\* a client receives, is the index argument when it is given and non-empty,
\* and otherwise default_index, a hyphen and the log_type tag.
C7_TargetIndex ==
    /\ \A c \in Slots :
           Invoked(c) =>
               calls[c].target_index =
                   Some(ResolvedIndex(default_index, calls[c].args.log_type, calls[c].index))
    /\ \A h \in Clients : \A r \in BagToSet(index_calls[h]) :
           r.index = ResolvedIndex(default_index, calls[r.caller].args.log_type,
                                   calls[r.caller].index)

C7_Witness ==
    \E c \in Slots :
        /\ calls[c].kind = "log"
        /\ Finished(c)
        /\ default_index = "mh-logs"
        /\ calls[c].index = Some("")
        /\ calls[c].args.log_type = "process"
        /\ \E r \in CallsOn(SyncClient, c) : r.index = "mh-logs-process"

\* every index call a client received carries the document and the index made
\* from the arguments of the call slot that made it
OwnPayload ==
    \A h \in Clients : \A r \in BagToSet(index_calls[h]) :
        LET f == calls[r.caller]
            a == f.args
        IN  /\ Invoked(r.caller)
            /\ r.document = _create_log_entry(f.t, a.message, a.level, a.service, a.log_type, a.logger, a.environment, a.model, a.method, a.action, a.expected_value, a.actual_value, a.result, a.additional_fields)
            /\ r.document["message"] = a.message
            /\ r.index = ResolvedIndex(default_index, a.log_type, f.index)

\* C8: under every interleaving of log and log_async calls, each index call a
\* client receives carries the document and index of its own call, and no step
\* changes default_index or the clients self.es and self.async_es refer to.
C8_NoCrossTalk ==
    /\ []OwnPayload
    /\ [][default_index' = default_index /\ es' = es /\ async_es' = async_es]_vars

C8_Witness ==
    \E c1, c2 \in Slots :
        /\ calls[c1].kind = "log_async"
        /\ calls[c1].pc = "awaiting"
        /\ calls[c1].args.message = "m1"
        /\ calls[c2].kind = "log"
        /\ calls[c2].pc = "returned"
        /\ calls[c2].args.message = "m2"
        /\ calls[c2].t > calls[c1].t
        /\ WritesOn(AsyncClient, c1) = 1
        /\ WritesOn(SyncClient, c2) = 1

\* C9: a log call and a log_async call with the same arguments and index
\* argument resolve the same index, build the same document but for
\* "@timestamp", and both raise ValueError or both make an index call; log
\* calls index on self.es only and log_async on self.async_es only.
C9_SameContract ==
    /\ \A c1, c2 \in Slots :
           (/\ calls[c1].kind = "log"
            /\ calls[c2].kind = "log_async"
            /\ calls[c1].args = calls[c2].args
            /\ calls[c1].index = calls[c2].index)
               => /\ calls[c1].target_index = calls[c2].target_index
                  /\ Without(Doc(c1), "@timestamp") = Without(Doc(c2), "@timestamp")
                  /\ (calls[c1].value = Some(ValueError)) <=> (calls[c2].value = Some(ValueError))
                  /\ WritesBy(c1) = WritesBy(c2)
                  /\ \A r1 \in CallsOn(SyncClient, c1) : \A r2 \in CallsOn(AsyncClient, c2) :
                         /\ r1.index = r2.index
                         /\ Without(r1.document, "@timestamp") = Without(r2.document, "@timestamp")
    /\ \A c \in Slots :
           /\ calls[c].kind = "log"
                  => /\ WritesOn(AsyncClient, c) = 0
                     /\ calls[c].value # Some(ValueError) => WritesOn(SyncClient, c) = 1
           /\ calls[c].kind = "log_async"
                  => /\ WritesOn(SyncClient, c) = 0
                     /\ calls[c].value # Some(ValueError) => WritesOn(AsyncClient, c) = 1

C9_Witness ==
    \E c1, c2 \in Slots :
        /\ calls[c1].kind = "log"
        /\ calls[c2].kind = "log_async"
        /\ Finished(c1)
        /\ Finished(c2)
        /\ calls[c1].args = calls[c2].args
        /\ calls[c1].index = Some("custom-idx")
        /\ calls[c2].index = Some("custom-idx")
        /\ calls[c1].t # calls[c2].t
        /\ WritesOn(SyncClient, c1) = 1
        /\ WritesOn(AsyncClient, c2) = 1

\* C10: a log or log_async call makes at most one index call over both
\* clients; when it returns, it made exactly one and returns what the client
\* answered; when it raises the client's error, it made exactly one and raises
\* that error as it is.
C10_SingleWrite ==
    \A c \in Slots :
        /\ WritesBy(c) <= 1
        /\ calls[c].pc = "returned"
               => /\ WritesBy(c) = 1
                  /\ ~IsNone(calls[c].response)
                  /\ Val(calls[c].response).ok
                  /\ calls[c].value = calls[c].response
        /\ (calls[c].pc = "raised" /\ calls[c].value # Some(ValueError))
               => /\ WritesBy(c) = 1
                  /\ ~IsNone(calls[c].response)
                  /\ ~Val(calls[c].response).ok
                  /\ calls[c].value = calls[c].response

C10_Witness ==
    \E c \in Slots :
        /\ calls[c].kind = "log_async"
        /\ calls[c].pc = "raised"
        /\ calls[c].value = Some(Err("TransportError"))
        /\ WritesOn(AsyncClient, c) = 1
        /\ WritesOn(SyncClient, c) = 0

====
